---- MODULE Spec2Model ----
(***************************************************************************)
(* A model of the HTTP server of web-app-from-scratch: the line reader,    *)
(* the body reader and the request parser of request.py, and the worker    *)
(* pool, the connection queue and the acceptor of server.py.               *)
(*                                                                         *)
(* The wire is a sequence of units.  A unit is a run of characters that is *)
(* written as one string: "CR" and "LF" are the two characters of the line *)
(* terminator, " " and ":" are the separators the parser looks for, and    *)
(* every other unit ("GET", "Host", "b1", ...) is a run of characters that *)
(* holds none of those four.  A recv call delivers any non-empty run of    *)
(* the units not yet read, so a chunk may end between "CR" and "LF".       *)
(***************************************************************************)
EXTENDS Integers, Sequences, FiniteSets, TLC

(***************************************************************************)
(* Bounds of the model.                                                    *)
(***************************************************************************)
MaxHeaders == 2        \* header lines of a generated request
MaxBody == 2           \* units that follow the blank line of a generated request
MaxStream == 6         \* units of the stream of the body-reader scenario
MaxRead == 5           \* largest n of a read(n) call in the body-reader scenario
MaxReads == 3          \* read calls in the body-reader scenario
WorkerCount == 2       \* worker_count of the server of the worker-pool scenario
MaxConns == 3          \* connections the peers open in the worker-pool scenario
BacklogWorkers == 1    \* worker_count of the server of the full-queue scenario

(***************************************************************************)
(* Program constants.                                                      *)
(***************************************************************************)
bufsize == 16384       \* iter_lines / BodyReader default chunk size
BacklogFactor == 8     \* worker_backlog = worker_count * 8

VARIABLES
    \* one connection: the socket, iter_lines, Request.from_socket, handle_client
    input,      \* the units the peer sends before it closes its side
    pos,        \* how many of them recv has delivered
    lbuff,      \* iter_lines: buff
    lineNo,     \* from_socket: lines taken from the line sequence so far
    request_line, \* from_socket: request_line, <<>> until the first line is taken
    pc,         \* position in from_socket / handle_client / the read scenario
    method,     \* Request.method
    path,       \* Request.path
    headers,    \* Request.headers: the (name, value) pairs in the order added
    perr,       \* the ValueError from_socket raised, kind "none" if none
    bodyBuff,   \* BodyReader._buff
    readN,      \* BodyReader.read: n of the call in progress
    reads,      \* the read calls completed: <<n, result>> in call order
    sent,       \* the statuses of the responses whose send was started
    closed,     \* the client socket is closed
    served,     \* serve_file was invoked
    outcome,    \* how handle_client ended: "none", "returned", "raised"
    exc,        \* the exception the except clause of handle_client caught
    gen,        \* the request the peer's units were generated from
    \* the server: HTTPServer.serve_forever and the HTTPWorker threads
    worker_count, \* HTTPServer.worker_count
    peers,      \* how many connections the peers open in all
    spc,        \* position of serve_forever
    sidx,       \* serve_forever: index of its for loops
    queue,      \* connection_queue: the connections put and not yet got
    unfinished, \* connection_queue: unfinished_tasks
    nextConn,   \* connections accepted so far
    pending,    \* the connection accept returned, being put (0: none)
    wpc,        \* position of each worker's run()
    running,    \* HTTPWorker.running
    cur,        \* the connection each worker is handling (0: none)
    wlast,      \* each worker: its last handle_client raised
    stopped,    \* the workers stop() has been called on
    lateGet,    \* a get returned an item after stop() was called on every worker
    closedConns \* the connections whose socket is closed

connVars == <<input, pos, lbuff, lineNo, request_line, pc, method, path, headers, perr,
              bodyBuff, readN, reads, sent, closed, served, outcome, exc, gen>>
srvVars == <<worker_count, peers, spc, sidx, queue, unfinished, nextConn, pending, wpc, running,
             cur, wlast, stopped, lateGet, closedConns>>
vars == <<connVars, srvVars>>

(***************************************************************************)
(* Strings: str operations of Python on sequences of units.                *)
(***************************************************************************)
Min(a, b) == IF a < b THEN a ELSE b

RECURSIVE Concat(_)
Concat(ss) == IF ss = <<>> THEN <<>> ELSE Head(ss) \o Concat(Tail(ss))

\* buff.index("\r\n"): the 1-based position of the first CR LF, 0 when str.index
\* raises because there is none
IndexCRLF(b) ==
    LET hits == {i \in 1..(Len(b) - 1) : b[i] = "CR" /\ b[i + 1] = "LF"}
    IN IF hits = {} THEN 0 ELSE CHOOSE i \in hits : \A j \in hits : i <= j

\* the exception str.index raises when the substring is absent
StrIndexRaises == "ValueError"

\* iter_lines line 29: the except clause around buff.index
IterLinesCatches(e) == e = "IndexError"

\* request_line.split(" "): the tokens between single spaces, empty ones kept
RECURSIVE SplitSpace(_)
SplitSpace(line) ==
    LET sp == {i \in 1..Len(line) : line[i] = " "}
    IN IF sp = {} THEN <<line>>
       ELSE LET i == CHOOSE k \in sp : \A j \in sp : k <= j
            IN <<SubSeq(line, 1, i - 1)>> \o SplitSpace(SubSeq(line, i + 1, Len(line)))

\* line.partition(":"): <<before, separator, after>> at the first colon, or
\* <<line, "", "">> when the line has none; it never raises
Partition(line) ==
    LET cs == {i \in 1..Len(line) : line[i] = ":"}
    IN IF cs = {} THEN <<line, <<>>, <<>>>>
       ELSE LET i == CHOOSE k \in cs : \A j \in cs : k <= j
            IN <<SubSeq(line, 1, i - 1), <<":">>, SubSeq(line, i + 1, Len(line))>>

Whitespace == {" ", "CR", "LF"}

\* value.lstrip()
RECURSIVE Lstrip(_)
Lstrip(v) == IF v # <<>> /\ Head(v) \in Whitespace THEN Lstrip(Tail(v)) ELSE v

RECURSIVE Rstrip(_)
Rstrip(v) ==
    IF v # <<>> /\ v[Len(v)] \in Whitespace THEN Rstrip(SubSeq(v, 1, Len(v) - 1)) ELSE v

UpperUnit(u) ==
    CASE u = "get" -> "GET"
      [] u = "post" -> "POST"
      [] u = "Host" -> "HOST"
      [] u = "Expect" -> "EXPECT"
      [] u = "expect" -> "EXPECT"
      [] u = "content-length" -> "CONTENT-LENGTH"
      [] u = "Content-Length" -> "CONTENT-LENGTH"
      [] u = "BadHeader" -> "BADHEADER"
      [] u = "100-continue" -> "100-CONTINUE"
      [] u = "x" -> "X"
      [] u = "b1" -> "B1"
      [] u = "b2" -> "B2"
      [] u = "b3" -> "B3"
      [] OTHER -> u

LowerUnit(u) ==
    CASE u = "GET" -> "get"
      [] u = "POST" -> "post"
      [] u = "Host" -> "host"
      [] u = "Expect" -> "expect"
      [] u = "Content-Length" -> "content-length"
      [] u = "BadHeader" -> "badheader"
      [] u = "HTTP/1.1" -> "http/1.1"
      [] OTHER -> u

\* method.upper()
Upper(s) == [i \in 1..Len(s) |-> UpperUnit(s[i])]

Lower(s) == [i \in 1..Len(s) |-> LowerUnit(s[i])]

DigitValue(u) ==
    CASE u = "0" -> 0
      [] u = "1" -> 1
      [] u = "2" -> 2
      [] u = "3" -> 3
      [] OTHER -> -1

\* int(s): <<TRUE, value>> or <<FALSE, 0>> when int raises ValueError
RECURSIVE DigitsValue(_)
DigitsValue(s) ==
    IF s = <<>> THEN 0 ELSE 10 * DigitsValue(SubSeq(s, 1, Len(s) - 1)) + DigitValue(s[Len(s)])

IntOf(s) ==
    LET t == Rstrip(Lstrip(s))
    IN IF t # <<>> /\ \A i \in 1..Len(t) : DigitValue(t[i]) >= 0
       THEN <<TRUE, DigitsValue(t)>>
       ELSE <<FALSE, 0>>

(***************************************************************************)
(* The Headers collaborator (headers.py).                                  *)
(***************************************************************************)
\* Headers.add(name, value)
HeadersAdd(h, name, value) == Append(h, <<name, value>>)

\* Headers.get(name, default): the first value added under the name, any case
HeadersGet(h, name, default) ==
    LET hits == {i \in 1..Len(h) : Lower(h[i][1]) = Lower(name)}
    IN IF hits = {} THEN default
       ELSE h[CHOOSE i \in hits : \A j \in hits : i <= j][2]

(***************************************************************************)
(* The requests a peer sends.                                              *)
(***************************************************************************)
CRLF == <<"CR", "LF">>

\* the tokens of a request line; the line joins them with single spaces
RequestTokens ==
    { << <<"get">>, <<"/">>, <<"HTTP/1.1">> >>,
      << <<"GET">>, <<"/../x">>, <<"HTTP/1.1">> >>,
      << <<"POST">>, <<"/">>, <<"HTTP/1.1">> >>,
      << <<"GET">>, <<"/">> >>,
      << <<"GET">>, <<"/">>, <<"HTTP/1.1">>, <<"x">> >> }

\* header lines: name ":" sep value, or the bare name when colon is FALSE
HeaderForms ==
    { [name |-> <<"Host">>, colon |-> TRUE, sep |-> <<" ">>, value |-> <<"x">>],
      [name |-> <<"Expect">>, colon |-> TRUE, sep |-> <<>>, value |-> <<"100-continue">>],
      [name |-> <<"content-length">>, colon |-> TRUE, sep |-> <<" ">>, value |-> <<"2">>],
      [name |-> <<"Content-Length">>, colon |-> TRUE, sep |-> <<>>, value |-> <<"x">>],
      [name |-> <<"BadHeader">>, colon |-> FALSE, sep |-> <<>>, value |-> <<>>] }

RECURSIVE JoinSpace(_)
JoinSpace(toks) ==
    IF Len(toks) = 1 THEN Head(toks) ELSE Head(toks) \o <<" ">> \o JoinSpace(Tail(toks))

HeaderLine(h) == IF h.colon THEN h.name \o <<":">> \o h.sep \o h.value ELSE h.name

BodyUnit(i) == "b" \o ToString(i)

\* the units of a request: request line, header lines, blank line, body
Wire(g) ==
    JoinSpace(g.tokens) \o CRLF
    \o Concat([i \in 1..Len(g.hdrs) |-> HeaderLine(g.hdrs[i]) \o CRLF])
    \o CRLF \o [i \in 1..g.body |-> BodyUnit(i)]

Generated ==
    [tokens : RequestTokens,
     hdrs : UNION {[1..n -> HeaderForms] : n \in 0..MaxHeaders},
     body : 0..MaxBody]

\* sock.recv(bufsize): a non-empty run of the units not yet delivered, at most
\* bufsize of them, or nothing once the peer has closed after its last unit
RecvChoices ==
    IF pos = Len(input) THEN {<<>>}
    ELSE {SubSeq(input, pos + 1, pos + k) : k \in 1..Min(bufsize, Len(input) - pos)}

NoError == [kind |-> "none", line |-> <<>>]

\* the worker threads
Workers == 1..worker_count

ServerIdle ==
    /\ worker_count = WorkerCount /\ peers = 0
    /\ spc = "off" /\ sidx = 0 /\ queue = <<>> /\ unfinished = 0 /\ nextConn = 0
    /\ pending = 0
    /\ wpc = [w \in Workers |-> "created"]
    /\ running = [w \in Workers |-> FALSE]
    /\ cur = [w \in Workers |-> 0]
    /\ wlast = [w \in Workers |-> FALSE]
    /\ stopped = {} /\ lateGet = FALSE /\ closedConns = {}

\* a connection a worker has just dequeued: handle_client is about to call
\* Request.from_socket; the peer sends a generated request or a prefix of one
InitConn ==
    /\ \E g \in Generated : \E cut \in 0..Len(Wire(g)) :
          /\ gen = [tokens |-> g.tokens, hdrs |-> g.hdrs, body |-> g.body,
                    complete |-> (cut = Len(Wire(g)))]
          /\ input = SubSeq(Wire(g), 1, cut)
    /\ pos = 0 /\ lbuff = <<>> /\ lineNo = 0 /\ request_line = <<>> /\ pc = "recv"
    /\ method = <<>> /\ path = <<>> /\ headers = <<>> /\ perr = NoError
    /\ bodyBuff = <<>> /\ readN = 0 /\ reads = <<>> /\ sent = <<>>
    /\ closed = FALSE /\ served = FALSE /\ outcome = "none" /\ exc = "none"
    /\ ServerIdle

(***************************************************************************)
(* Request.from_socket over iter_lines.                                    *)
(***************************************************************************)
\* an except clause that catches socket errors only
HandleClientCatchesSendOnly(e) == e = "send"

\* handle_client line 105: except Exception catches whatever the try block raised
HandleClientCatches(e) == e \in {"parse", "send", "handler"}

\* the try block of handle_client raised e
HandleRaise(e) ==
    IF HandleClientCatches(e)
    THEN pc' = "except" /\ exc' = e /\ UNCHANGED outcome
    ELSE pc' = "exit" /\ exc' = e /\ outcome' = "raised"

\* an unpacking that tolerates extra tokens (method, path, *_)
RequestLineAtLeastThree(tokens) == Len(tokens) >= 3

\* from_socket line 77: the unpacking of the split request line succeeds
RequestLineOk(tokens) == Len(tokens) = 3

\* from_socket raises ValueError: handle_client's try block is left
FromSocketRaise(kind, line) ==
    /\ perr' = [kind |-> kind, line |-> line]
    /\ HandleRaise("parse")
    /\ UNCHANGED <<lineNo, request_line, method, path, headers, bodyBuff>>

\* a body reader built without the remainder: BodyReader(sock)
BodyReaderInitEmpty(rest) == <<>>

\* from_socket line 98: BodyReader(sock, buff=buff), its initial _buff
BodyReaderInit(rest) == rest

\* the line sequence ended (StopIteration) with the remainder rest
FromSocketStop(rest) ==
    IF lineNo = 0
    THEN FromSocketRaise("RequestLineMissing", <<>>)
    ELSE /\ bodyBuff' = BodyReaderInit(rest)
         /\ pc' = "expect"
         /\ UNCHANGED <<lineNo, request_line, method, path, headers, perr, exc, outcome>>

\* the line sequence yielded line: the request line first, then header lines
FromSocketLine(line) ==
    IF lineNo = 0
    THEN LET tokens == SplitSpace(line)
         IN IF RequestLineOk(tokens)
            THEN /\ request_line' = line
                 /\ method' = Upper(tokens[1])
                 /\ path' = tokens[2]
                 /\ lineNo' = 1
                 /\ pc' = "scan"
                 /\ UNCHANGED <<headers, perr, bodyBuff, exc, outcome>>
            ELSE /\ request_line' = line
                 /\ perr' = [kind |-> "MalformedRequestLine", line |-> line]
                 /\ HandleRaise("parse")
                 /\ UNCHANGED <<lineNo, method, path, headers, bodyBuff>>
    ELSE LET parts == Partition(line)
         IN /\ headers' = HeadersAdd(headers, parts[1], Lstrip(parts[3]))
            /\ lineNo' = lineNo + 1
            /\ pc' = "scan"
            /\ UNCHANGED <<request_line, method, path, perr, bodyBuff, exc, outcome>>

\* iter_lines lines 15-20: one recv
IterLinesRecv ==
    /\ pc = "recv"
    /\ \E data \in RecvChoices :
          /\ pos' = pos + Len(data)
          /\ IF data = <<>>
             THEN /\ FromSocketStop(<<>>)
                  /\ UNCHANGED lbuff
             ELSE /\ lbuff' = lbuff \o data
                  /\ pc' = "scan"
                  /\ UNCHANGED <<lineNo, request_line, method, path, headers, perr,
                                 bodyBuff, exc, outcome>>
    /\ UNCHANGED <<input, readN, reads, sent, closed, served, gen>>
    /\ UNCHANGED srvVars

\* iter_lines lines 21-30: one search of the buffer for a terminator
IterLinesScan ==
    /\ pc = "scan"
    /\ LET i == IndexCRLF(lbuff)
       IN IF i = 0
          THEN IF IterLinesCatches(StrIndexRaises)
               THEN /\ pc' = "recv"
                    /\ UNCHANGED <<lbuff, lineNo, request_line, method, path, headers,
                                   perr, bodyBuff, exc, outcome>>
               ELSE /\ FromSocketRaise("SubstringNotFound", <<>>)
                    /\ UNCHANGED lbuff
          ELSE LET line == SubSeq(lbuff, 1, i - 1)
                   rest == SubSeq(lbuff, i + 2, Len(lbuff))
               IN /\ lbuff' = rest
                  /\ IF line = <<>> THEN FromSocketStop(rest) ELSE FromSocketLine(line)
    /\ UNCHANGED <<input, pos, readN, reads, sent, closed, served, gen>>
    /\ UNCHANGED srvVars

(***************************************************************************)
(* BodyReader.read.                                                        *)
(***************************************************************************)
\* BodyReader.read line 45: the loop goes on to another recv
ReadNeedsMore(buff, n) == Len(buff) < n

\* a read that returns the first n units and drops the surplus
ReadTakeDropsSurplus(buff, n) == <<SubSeq(buff, 1, Min(n, Len(buff))), <<>>>>

\* BodyReader.read line 52: <<self._buff[:n], self._buff[n:]>> for n >= 0
ReadTake(buff, n) ==
    <<SubSeq(buff, 1, Min(n, Len(buff))), SubSeq(buff, Min(n, Len(buff)) + 1, Len(buff))>>

\* BodyReader.read lines 52-53, then the caller goes on at after
ReadReturn(buff, after) ==
    /\ reads' = Append(reads, <<readN, ReadTake(buff, readN)[1]>>)
    /\ bodyBuff' = ReadTake(buff, readN)[2]
    /\ pc' = after

\* BodyReader.read: one pass of the while loop of lines 45-50, or the return
ReadStep(after) ==
    IF ReadNeedsMore(bodyBuff, readN)
    THEN \E data \in RecvChoices :
            /\ pos' = pos + Len(data)
            /\ IF data = <<>>
               THEN ReadReturn(bodyBuff, after)
               ELSE /\ bodyBuff' = bodyBuff \o data
                    /\ UNCHANGED <<reads, pc>>
    ELSE /\ ReadReturn(bodyBuff, after)
         /\ UNCHANGED pos

(***************************************************************************)
(* HTTPWorker.handle_client and serve_file, on the one connection.         *)
(***************************************************************************)
\* Response.send(sock): it writes the response, or raises on a socket error
SendOutcomes == {"ok", "fail"}

\* a close() placed at the end of the block instead of a with statement
WithClosesOnReturnOnly(how) == how = "returned"

\* handle_client line 79: leaving the with block closes the socket, however it is left
WithCloses(how) == how \in {"returned", "raised"}

\* a worker that never answers an expectation
ExpectIgnored(h) == FALSE

\* handle_client line 84: "100-continue" in request.headers.get("expect", "")
ExpectsContinue(h) ==
    LET v == HeadersGet(h, <<"expect">>, <<>>)
    IN \E i \in 1..Len(v) : v[i] = "100-continue"

\* handle_client lines 84-86
HandleExpect ==
    /\ pc = "expect"
    /\ IF ExpectsContinue(headers)
          THEN /\ sent' = Append(sent, "100")
               /\ \E r \in SendOutcomes :
                     IF r = "ok"
                     THEN pc' = "clen" /\ UNCHANGED <<exc, outcome>>
                     ELSE HandleRaise("send")
          ELSE pc' = "clen" /\ UNCHANGED <<sent, exc, outcome>>
    /\ UNCHANGED <<input, pos, lbuff, lineNo, request_line, method, path, headers, perr, bodyBuff,
                   readN, reads, closed, served, gen>>
    /\ UNCHANGED srvVars

\* a worker that takes every request to have no body
ContentLengthIgnored(h) == 0

\* handle_client lines 88-91
ContentLength(h) ==
    LET r == IntOf(HeadersGet(h, <<"content-length">>, <<"0">>))
    IN IF r[1] THEN r[2] ELSE 0

\* handle_client lines 88-93
HandleContentLength ==
    /\ pc = "clen"
    /\ IF ContentLength(headers) # 0
       THEN readN' = ContentLength(headers) /\ pc' = "read"
       ELSE pc' = "method" /\ UNCHANGED readN
    /\ UNCHANGED <<input, pos, lbuff, lineNo, request_line, method, path, headers, perr, bodyBuff,
                   reads, sent, closed, served, outcome, exc, gen>>
    /\ UNCHANGED srvVars

\* handle_client line 94
HandleReadBody ==
    /\ pc = "read"
    /\ ReadStep("method")
    /\ UNCHANGED <<input, lbuff, lineNo, request_line, method, path, headers, perr, readN, sent,
                   closed, served, outcome, exc, gen>>
    /\ UNCHANGED srvVars

\* a method check that lets every method through
MethodAnySupported(m) == TRUE

\* handle_client line 97
MethodSupported(m) == m = <<"GET">>

\* handle_client lines 97-102
HandleMethod ==
    /\ pc = "method"
    /\ IF MethodSupported(method)
       THEN pc' = "serve" /\ UNCHANGED <<sent, exc, outcome>>
       ELSE /\ sent' = Append(sent, "405")
            /\ \E r \in SendOutcomes :
                  IF r = "ok"
                  THEN pc' = "exit" /\ outcome' = "returned" /\ UNCHANGED exc
                  ELSE HandleRaise("send")
    /\ UNCHANGED <<input, pos, lbuff, lineNo, request_line, method, path, headers, perr, bodyBuff,
                   readN, reads, closed, served, gen>>
    /\ UNCHANGED srvVars

\* serve_file lines 21-24: the components of the normalised path under SERVER_ROOT
Abspath(p) ==
    CASE p = <<"/">> -> <<"www", "index.html">>
      [] p = <<"/../x">> -> <<"x">>
      [] p = <<>> -> <<"www">>
      [] OTHER -> <<"www">> \o p

\* serve_file line 25
StartsWithRoot(a) == a # <<>> /\ Head(a) = "www"

\* what open(abspath, "rb") does: the file opens, is missing, or fails otherwise
OpenOutcomes == {"exists", "missing", "error"}

\* handle_client line 104: serve_file, whole
HandleServeFile ==
    /\ pc = "serve"
    /\ served' = TRUE
    /\ \E fs \in OpenOutcomes : \E r \in SendOutcomes :
          IF StartsWithRoot(Abspath(path)) /\ fs = "error"
          THEN r = "ok" /\ HandleRaise("handler") /\ UNCHANGED sent
          ELSE /\ sent' = Append(sent,
                      IF StartsWithRoot(Abspath(path)) /\ fs = "exists"
                      THEN "200" ELSE "404")
               /\ IF r = "ok"
                  THEN pc' = "exit" /\ outcome' = "returned" /\ UNCHANGED exc
                  ELSE HandleRaise("send")
    /\ UNCHANGED <<input, pos, lbuff, lineNo, request_line, method, path, headers, perr, bodyBuff,
                   readN, reads, closed, gen>>
    /\ UNCHANGED srvVars

\* handle_client lines 105-108
HandleExcept ==
    /\ pc = "except"
    /\ sent' = Append(sent, "400")
    /\ \E r \in SendOutcomes :
          outcome' = IF r = "ok" THEN "returned" ELSE "raised"
    /\ pc' = "exit"
    /\ UNCHANGED <<input, pos, lbuff, lineNo, request_line, method, path, headers, perr, bodyBuff,
                   readN, reads, closed, served, exc, gen>>
    /\ UNCHANGED srvVars

\* handle_client line 79: the with block is left
HandleExit ==
    /\ pc = "exit"
    /\ closed' = (closed \/ WithCloses(outcome))
    /\ pc' = "end"
    /\ UNCHANGED <<input, pos, lbuff, lineNo, request_line, method, path, headers, perr, bodyBuff,
                   readN, reads, sent, served, outcome, exc, gen>>
    /\ UNCHANGED srvVars

NextConn ==
    \/ IterLinesRecv
    \/ IterLinesScan
    \/ HandleExpect
    \/ HandleContentLength
    \/ HandleReadBody
    \/ HandleMethod
    \/ HandleServeFile
    \/ HandleExcept
    \/ HandleExit

SpecConn == InitConn /\ [][NextConn]_vars

(***************************************************************************)
(* The body reader on its own: a BodyReader built on a buffered remainder  *)
(* and a connection, and a caller that makes read calls one after another. *)
(***************************************************************************)
\* the initial buffer followed by the connection's data
Stream(total) == [i \in 1..total |-> BodyUnit(i)]

InitBody ==
    /\ \E total \in 0..MaxStream : \E k \in 0..total :
          /\ gen = [buff |-> SubSeq(Stream(total), 1, k), total |-> total]
          /\ bodyBuff = SubSeq(Stream(total), 1, k)
          /\ input = SubSeq(Stream(total), k + 1, total)
    /\ pos = 0 /\ lbuff = <<>> /\ lineNo = 0 /\ request_line = <<>> /\ pc = "idle"
    /\ method = <<>> /\ path = <<>> /\ headers = <<>> /\ perr = NoError
    /\ readN = 0 /\ reads = <<>> /\ sent = <<>>
    /\ closed = FALSE /\ served = FALSE /\ outcome = "none" /\ exc = "none"
    /\ ServerIdle

\* the caller calls body.read(n)
BodyReadCall ==
    /\ pc = "idle"
    /\ Len(reads) < MaxReads
    /\ \E n \in 0..MaxRead : readN' = n
    /\ pc' = "bread"
    /\ UNCHANGED <<input, pos, lbuff, lineNo, request_line, method, path, headers,
                   perr, bodyBuff, reads, sent, closed, served, outcome, exc, gen>>
    /\ UNCHANGED srvVars

\* BodyReader.read lines 45-53
BodyRead ==
    /\ pc = "bread"
    /\ ReadStep("idle")
    /\ UNCHANGED <<input, lbuff, lineNo, request_line, method, path, headers, perr,
                   readN, sent, closed, served, outcome, exc, gen>>
    /\ UNCHANGED srvVars

NextBody == BodyReadCall \/ BodyRead

SpecBody == InitBody /\ [][NextBody]_vars

(***************************************************************************)
(* HTTPServer.serve_forever, the connection queue and the HTTPWorker       *)
(* threads.  Connections are numbered in the order accept returns them.    *)
(***************************************************************************)
\* HTTPServer.__init__ line 116: worker_backlog, the maxsize of the queue
Capacity == worker_count * BacklogFactor

\* a queue built without maxsize
QueueNeverFull(q) == FALSE

\* Queue.put blocks while the queue holds maxsize items
QueueFull(q) == Len(q) >= Capacity

\* a get that leaves the item in the queue
QueueAfterPeek(q) == q

\* Queue.get: the queue once its first item is taken
QueueAfterGet(q) == Tail(q)

\* a run() without the except clause
RunCatchesNothing(how) == FALSE

\* run line 70: except Exception catches what handle_client raised
RunCatches(how) == how = "raised"

\* how handle_client can end
HandleOutcomes == {"returned", "raised"}

ConnIdle ==
    /\ input = <<>> /\ pos = 0 /\ lbuff = <<>> /\ lineNo = 0 /\ request_line = <<>>
    /\ pc = "off" /\ method = <<>> /\ path = <<>> /\ headers = <<>> /\ perr = NoError
    /\ bodyBuff = <<>> /\ readN = 0 /\ reads = <<>> /\ sent = <<>>
    /\ closed = FALSE /\ served = FALSE /\ outcome = "none" /\ exc = "none"
    /\ gen = [tokens |-> <<>>]

\* HTTPServer(worker_count = n) is built and serve_forever is called; the peers
\* will open k connections
InitServer(n, k) ==
    /\ ConnIdle
    /\ worker_count = n /\ peers = k
    /\ spc = "start" /\ sidx = 0 /\ queue = <<>> /\ unfinished = 0 /\ nextConn = 0
    /\ pending = 0
    /\ wpc = [w \in Workers |-> "created"]
    /\ running = [w \in Workers |-> FALSE]
    /\ cur = [w \in Workers |-> 0]
    /\ wlast = [w \in Workers |-> FALSE]
    /\ stopped = {} /\ lateGet = FALSE /\ closedConns = {}

\* the worker-pool scenario: a few connections, several workers
Init == InitServer(WorkerCount, MaxConns)

\* the full-queue scenario: one connection more than the queue holds
InitBacklog == InitServer(BacklogWorkers, BacklogWorkers * BacklogFactor + 1)

\* serve_forever lines 120-124: one pass of the loop that starts the workers
ServeStartWorker ==
    /\ spc = "start" /\ sidx < worker_count
    /\ wpc' = [wpc EXCEPT ![sidx + 1] = "started"]
    /\ sidx' = sidx + 1
    /\ UNCHANGED <<worker_count, peers, spc, queue, unfinished, nextConn, pending, running, cur, wlast,
                   stopped, lateGet, closedConns>>
    /\ UNCHANGED connVars

\* serve_forever lines 127-138: the listening socket is set up
ServeListen ==
    /\ spc = "start" /\ sidx = worker_count
    /\ spc' = "accept"
    /\ UNCHANGED <<worker_count, peers, sidx, queue, unfinished, nextConn, pending, wpc, running, cur,
                   wlast, stopped, lateGet, closedConns>>
    /\ UNCHANGED connVars

\* serve_forever line 142: server_sock.accept() returns a new connection
ServeAccept ==
    /\ spc = "accept" /\ nextConn < peers
    /\ nextConn' = nextConn + 1
    /\ pending' = nextConn + 1
    /\ spc' = "put"
    /\ UNCHANGED <<worker_count, peers, sidx, queue, unfinished, wpc, running, cur, wlast, stopped, lateGet, closedConns>>
    /\ UNCHANGED connVars

\* serve_forever line 142: connection_queue.put completes
ServePut ==
    /\ spc = "put" /\ ~QueueFull(queue)
    /\ queue' = Append(queue, pending)
    /\ unfinished' = unfinished + 1
    /\ pending' = 0
    /\ spc' = "accept"
    /\ UNCHANGED <<worker_count, peers, sidx, nextConn, wpc, running, cur, wlast, stopped,
                   lateGet, closedConns>>
    /\ UNCHANGED connVars

\* serve_forever lines 143-144: KeyboardInterrupt in accept or in a blocked put
ServeInterrupt ==
    /\ spc \in {"accept", "put"}
    /\ spc' = "stop" /\ sidx' = 0 /\ pending' = 0
    /\ UNCHANGED <<worker_count, peers, queue, unfinished, nextConn, wpc, running, cur, wlast, stopped, lateGet, closedConns>>
    /\ UNCHANGED connVars

\* HTTPWorker.stop, called by serve_forever lines 146-147
ServeStop ==
    /\ spc = "stop"
    /\ IF sidx < worker_count
       THEN /\ running' = [running EXCEPT ![sidx + 1] = FALSE]
            /\ stopped' = stopped \cup {sidx + 1}
            /\ sidx' = sidx + 1
            /\ UNCHANGED spc
       ELSE /\ spc' = "join" /\ sidx' = 0
            /\ UNCHANGED <<running, stopped>>
    /\ UNCHANGED <<worker_count, peers, queue, unfinished, nextConn, pending, wpc, cur, wlast, lateGet, closedConns>>
    /\ UNCHANGED connVars

\* serve_forever lines 149-150: join(timeout=30) returns, the worker gone or not;
\* after the last one serve_forever returns and the process, whose workers are
\* daemon threads, ends
ServeJoin ==
    /\ spc = "join"
    /\ IF sidx < worker_count
       THEN sidx' = sidx + 1 /\ UNCHANGED spc
       ELSE spc' = "done" /\ UNCHANGED sidx
    /\ UNCHANGED <<worker_count, peers, queue, unfinished, nextConn, pending, wpc, running, cur, wlast,
                   stopped, lateGet, closedConns>>
    /\ UNCHANGED connVars

\* run line 60
WorkerRunStart(w) ==
    /\ spc # "done" /\ wpc[w] = "started"
    /\ running' = [running EXCEPT ![w] = TRUE]
    /\ wpc' = [wpc EXCEPT ![w] = "check"]
    /\ UNCHANGED <<worker_count, peers, spc, sidx, queue, unfinished, nextConn, pending, cur, wlast,
                   stopped, lateGet, closedConns>>
    /\ UNCHANGED connVars

\* run line 61: while self.running
WorkerCheck(w) ==
    /\ spc # "done" /\ wpc[w] = "check"
    /\ wpc' = [wpc EXCEPT ![w] = IF running[w] THEN "get" ELSE "exit"]
    /\ UNCHANGED <<worker_count, peers, spc, sidx, queue, unfinished, nextConn, pending, running, cur,
                   wlast, stopped, lateGet, closedConns>>
    /\ UNCHANGED connVars

\* run line 63: connection_queue.get(timeout=1) returns an item
WorkerGet(w) ==
    /\ spc # "done" /\ wpc[w] = "get"
    /\ queue # <<>>
    /\ cur' = [cur EXCEPT ![w] = Head(queue)]
    /\ queue' = QueueAfterGet(queue)
    /\ lateGet' = (lateGet \/ stopped = Workers)
    /\ wpc' = [wpc EXCEPT ![w] = "handle"]
    /\ UNCHANGED <<worker_count, peers, spc, sidx, unfinished, nextConn, pending, running, wlast, stopped, closedConns>>
    /\ UNCHANGED connVars

\* run lines 63-66: the get times out on an empty queue
WorkerGetEmpty(w) ==
    /\ spc # "done" /\ wpc[w] = "get"
    /\ queue = <<>>
    /\ wpc' = [wpc EXCEPT ![w] = "check"]
    /\ UNCHANGED <<worker_count, peers, spc, sidx, queue, unfinished, nextConn, pending, running, cur,
                   wlast, stopped, lateGet, closedConns>>
    /\ UNCHANGED connVars

\* run lines 68-72: handle_client, whole, on the worker's connection
WorkerHandle(w) ==
    /\ spc # "done" /\ wpc[w] = "handle"
    /\ \E how \in HandleOutcomes :
          /\ closedConns' = IF WithCloses(how) THEN closedConns \cup {cur[w]}
                            ELSE closedConns
          /\ wlast' = [wlast EXCEPT ![w] = (how = "raised")]
          /\ wpc' = [wpc EXCEPT ![w] =
                        IF how = "returned" \/ RunCatches(how) THEN "task_done"
                        ELSE "uncaught"]
    /\ UNCHANGED <<worker_count, peers, spc, sidx, queue, unfinished, nextConn, pending, running, cur,
                   stopped, lateGet>>
    /\ UNCHANGED connVars

\* a task_done() placed after handle_client inside the try block
TaskDoneOnReturnOnly(raised) == ~raised

\* run lines 73-75: the finally clause runs task_done() whether handle_client
\* returned or raised
TaskDoneRuns(raised) == TRUE

\* run lines 73-75: the finally clause, then the loop or the end of the thread
WorkerTaskDone(w) ==
    /\ spc # "done" /\ wpc[w] \in {"task_done", "uncaught"}
    /\ unfinished' = IF TaskDoneRuns(wlast[w]) THEN unfinished - 1 ELSE unfinished
    /\ cur' = [cur EXCEPT ![w] = 0]
    /\ wpc' = [wpc EXCEPT ![w] = IF wpc[w] = "uncaught" THEN "dead" ELSE "check"]
    /\ UNCHANGED <<worker_count, peers, spc, sidx, queue, nextConn, pending, running, wlast, stopped,
                   lateGet, closedConns>>
    /\ UNCHANGED connVars

Next ==
    \/ ServeStartWorker
    \/ ServeListen
    \/ ServeAccept
    \/ ServePut
    \/ ServeInterrupt
    \/ ServeStop
    \/ ServeJoin
    \/ \E w \in Workers : WorkerRunStart(w)
    \/ \E w \in Workers : WorkerCheck(w)
    \/ \E w \in Workers : WorkerGet(w)
    \/ \E w \in Workers : WorkerGetEmpty(w)
    \/ \E w \in Workers : WorkerHandle(w)
    \/ \E w \in Workers : WorkerTaskDone(w)

Spec == Init /\ [][Next]_vars

SpecBacklog == InitBacklog /\ [][Next]_vars

(***************************************************************************)
(* Properties.                                                             *)
(***************************************************************************)
\* Request.from_socket has returned or raised
FromSocketEnded == pc \notin {"recv", "scan"}

\* the generated request is well formed: three tokens, every header with a colon
WellFormed(g) == Len(g.tokens) = 3 /\ \A i \in 1..Len(g.hdrs) : g.hdrs[i].colon

ExpectedHeaders(g) == [i \in 1..Len(g.hdrs) |-> <<g.hdrs[i].name, g.hdrs[i].value>>]

\* C1: a well-formed request that is delivered completely parses to the same
\* Request -- method upper-cased, path, headers in order -- whatever chunks the
\* recv calls deliver.
C1_SameRequestForEveryChunking ==
    (WellFormed(gen) /\ gen.complete /\ FromSocketEnded)
        => /\ perr.kind = "none"
           /\ method = Upper(gen.tokens[1])
           /\ path = gen.tokens[2]
           /\ headers = ExpectedHeaders(gen)

RECURSIVE ReadSoFar(_, _)
ReadSoFar(rs, k) == IF k = 0 THEN 0 ELSE ReadSoFar(rs, k - 1) + Len(rs[k][2])

\* C2: the results of the read calls, then the buffer, then the data not yet
\* received are the initial buffer followed by the connection's data, and the
\* k-th read(n) returns min(n, B) units, B being what was left of them at the call.
C2_ReadReturnsMinAndKeepsSurplus ==
    /\ Concat([i \in 1..Len(reads) |-> reads[i][2]]) \o bodyBuff
          \o SubSeq(input, pos + 1, Len(input)) = Stream(gen.total)
    /\ \A k \in 1..Len(reads) :
          Len(reads[k][2]) = Min(reads[k][1], gen.total - ReadSoFar(reads, k - 1))

\* buffered "ab", connection data "cdef": read(5) gave "abcde", read(1) gave "f"
C2_Witness ==
    /\ gen.buff = <<"b1", "b2">> /\ gen.total = 6
    /\ reads = << <<5, <<"b1", "b2", "b3", "b4", "b5">> >>, <<1, <<"b6">> >> >>

\* C3: the queue never holds more than worker_count * 8 connections, and a put
\* on a full queue cannot complete.
C3_QueueWithinCapacity ==
    /\ Len(queue) <= worker_count * BacklogFactor
    /\ (spc = "put" /\ Len(queue) = worker_count * BacklogFactor) => ~ENABLED ServePut

\* capacity pushes done, no worker has dequeued, the next put is blocked
C3_Witness ==
    /\ spc = "put" /\ pending = worker_count * BacklogFactor + 1
    /\ Len(queue) = worker_count * BacklogFactor
    /\ \A w \in Workers : cur[w] = 0

\* C4: once stop() has been called on every worker, no get returns an item.
C4_NoGetAfterAllStopped == ~lateGet

InQueue(c) == \E i \in 1..Len(queue) : queue[i] = c

\* C5: no connection is handled by two workers, none is both queued and handled,
\* none is queued twice, and none comes back once its handling has ended.
C5_ExclusiveOwnership ==
    /\ \A w1, w2 \in Workers : (w1 # w2 /\ cur[w1] # 0) => cur[w1] # cur[w2]
    /\ \A w \in Workers : cur[w] # 0 => ~InQueue(cur[w])
    /\ \A i, j \in 1..Len(queue) : i # j => queue[i] # queue[j]
    /\ \A c \in closedConns : ~InQueue(c)
    /\ \A w \in Workers : (cur[w] \in closedConns) => wpc[w] \in {"task_done", "uncaught"}

\* two workers are handling connections while another one waits in the queue
C5_Witness ==
    /\ \E w1, w2 \in Workers : w1 # w2 /\ wpc[w1] = "handle" /\ wpc[w2] = "handle"
    /\ queue # <<>>

\* C6: when handle_client has ended, the connection is closed.
C6_ClosedWhenHandlingEnds == pc = "end" => closed

\* handle_client ended by the failure of the send of the 400 response
C6_Witness == pc = "end" /\ outcome = "raised" /\ closed /\ sent = <<"400">>

\* C7: no worker thread ends because handle_client raised: a thread that has
\* ended left its loop at the check of the running flag, with the flag clear.
C7_FailureKeepsWorker ==
    \A w \in Workers :
        /\ wpc[w] # "dead"
        /\ wpc[w] = "exit" => ~running[w]

\* a worker whose last handle_client raised is handling its next connection
C7_Witness == \E w \in Workers : wlast[w] /\ wpc[w] = "handle"

\* C8: when from_socket has raised, the only response sent is the 400, serve_file
\* is not invoked, and the socket is closed after the 400 was sent.
C8_ParseFailureSends400 ==
    perr.kind # "none"
        => /\ ~served
           /\ sent \in {<<>>, <<"400">>}
           /\ pc \in {"exit", "end"} => sent = <<"400">>
           /\ pc = "end" => closed
           /\ closed => sent = <<"400">>

C8_Witness ==
    /\ perr.kind = "MalformedRequestLine" /\ pc = "end"
    /\ sent = <<"400">> /\ closed /\ ~served

Spaces(line) == Cardinality({i \in 1..Len(line) : line[i] = " "})

\* C9: a request line that does not hold exactly two single spaces, so that it
\* splits into fewer or more than three tokens, makes from_socket raise the
\* malformed-request-line error naming the line; no Request is produced.
C9_MalformedRequestLine ==
    (request_line # <<>> /\ Spaces(request_line) # 2)
        => /\ perr = [kind |-> "MalformedRequestLine", line |-> request_line]
           /\ pc \in {"except", "exit", "end"}
           /\ method = <<>> /\ path = <<>> /\ headers = <<>>

\* the request line "GET /" was refused
C9_Witness ==
    /\ request_line = <<"GET", " ", "/">>
    /\ perr = [kind |-> "MalformedRequestLine", line |-> <<"GET", " ", "/">>]

\* C10: a header line without a colon is not taken: from_socket does not go past
\* it and adds no header for it.
C10_HeaderWithoutColonFails ==
    \A k \in 1..Len(gen.hdrs) :
        ~gen.hdrs[k].colon => (lineNo <= k /\ Len(headers) < k)

\* the input holds no line terminator
NoTerminator(b) == \A i \in 1..(Len(b) - 1) : ~(b[i] = "CR" /\ b[i + 1] = "LF")

\* C11: when the peer closes before a complete line was delivered -- no units at
\* all, or units without a CR LF -- from_socket raises "request line missing".
C11_RequestLineMissing ==
    (NoTerminator(input) /\ FromSocketEnded) => perr.kind = "RequestLineMissing"

\* from_socket returned a Request
ParsedOk == FromSocketEnded /\ perr.kind = "none"

\* the units of the generated request up to and including the blank line
HeadSection(g) ==
    JoinSpace(g.tokens) \o CRLF
    \o Concat([i \in 1..Len(g.hdrs) |-> HeaderLine(g.hdrs[i]) \o CRLF]) \o CRLF

\* C12: when parsing succeeds, the units received are the lines with their
\* terminators, the blank line and the remainder the body reader starts with, so
\* that the results of body.read, then the reader's buffer, then the units not
\* yet received are exactly the units that follow the blank line.
C12_NoBytesLost ==
    ParsedOk
        => /\ HeadSection(gen) \o Concat([i \in 1..Len(reads) |-> reads[i][2]])
                 \o bodyBuff \o SubSeq(input, pos + 1, Len(input)) = input
           /\ pc = "expect"
                 => bodyBuff = SubSeq(input, Len(HeadSection(gen)) + 1, pos)

\* a request followed by two units was parsed and read(2) returned those units
C12_Witness ==
    /\ ParsedOk /\ gen.body = 2
    /\ reads = << <<2, <<"b1", "b2">> >> >>

\* the workers that hold a dequeued item whose handling has not ended
Holding == {w \in Workers : cur[w] # 0}

\* C13: the queue's count of unacknowledged items is the number of items queued
\* plus the number of items being handled: every dequeued item is acknowledged
\* exactly once when its handling ends, returned or raised, and a get that
\* times out acknowledges nothing.
C13_OneAckPerItem == unfinished = Len(queue) + Cardinality(Holding)

\* a worker whose handle_client raised has acknowledged the item and polls an
\* empty queue
C13_Witness ==
    \E w \in Workers :
        /\ wlast[w] /\ wpc[w] = "get" /\ cur[w] = 0
        /\ queue = <<>> /\ unfinished = 0 /\ nextConn > 0

\* C14: once stop() has been called on a worker, its next check of the running
\* flag ends its loop.
C14_StoppedWorkerExits ==
    [][\A w \in Workers :
          (w \in stopped /\ wpc[w] = "check" /\ wpc'[w] # "check") => wpc'[w] = "exit"]_vars

\* the statuses of the responses whose send was started
Statuses == {sent[i] : i \in 1..Len(sent)}

\* C15: a failure raised by serve_file leaves handle_client and reaches run():
\* the 400 response is sent only when from_socket has raised.
C15_HandlerFailureReachesRun ==
    /\ "400" \in Statuses => perr.kind # "none"
    /\ (exc = "handler" /\ pc = "end") => outcome = "raised"

\* the request line and the first k header lines, each with its terminator
HeadLines(g, k) ==
    JoinSpace(g.tokens) \o CRLF
    \o Concat([i \in 1..k |-> HeaderLine(g.hdrs[i]) \o CRLF])

\* C16: when the peer closes after the request line and some complete header
\* lines but before the blank line, from_socket returns a Request with the
\* method, the path and the headers read so far, and the body reader starts
\* with an empty buffer.
C16_EarlyCloseReturnsRequest ==
    \A k \in 0..Len(gen.hdrs) :
        (WellFormed(gen) /\ input = HeadLines(gen, k) /\ FromSocketEnded)
            => /\ perr.kind = "none"
               /\ method = Upper(gen.tokens[1])
               /\ path = gen.tokens[2]
               /\ headers = SubSeq(ExpectedHeaders(gen), 1, k)
               /\ pc = "expect" => bodyBuff = <<>>

\* the generated request carries an Expect header that holds 100-continue
GenExpects(g) ==
    \E i \in 1..Len(g.hdrs) :
        /\ g.hdrs[i].colon /\ Lower(g.hdrs[i].name) = <<"expect">>
        /\ \E j \in 1..Len(g.hdrs[i].value) : g.hdrs[i].value[j] = "100-continue"

\* C17: for a parsed request that expects 100-continue, the 100 Continue is the
\* first response sent, before the body is read and before any final response,
\* and it is sent once; for a request without the expectation it is never sent.
C17_ContinueBeforeBody ==
    ParsedOk
        => /\ pc = "expect" => (sent = <<>> /\ reads = <<>>)
           /\ (GenExpects(gen) /\ pc # "expect") => (sent # <<>> /\ Head(sent) = "100")
           /\ \A i \in 2..Len(sent) : sent[i] # "100"
           /\ ~GenExpects(gen) => "100" \notin Statuses

\* POST with Expect and content-length 2: 100 Continue, then read(2), then the 405
C17_Witness ==
    /\ ParsedOk /\ GenExpects(gen)
    /\ sent = <<"100", "405">>
    /\ reads = << <<2, <<"b1", "b2">> >> >>

\* the value of the first Content-Length header of the generated request
RECURSIVE GenContentLength(_, _)
GenContentLength(g, i) ==
    IF i > Len(g.hdrs) THEN 0
    ELSE IF g.hdrs[i].colon /\ Lower(g.hdrs[i].name) = <<"content-length">>
         THEN IF g.hdrs[i].value = <<"2">> THEN 2 ELSE 0
         ELSE GenContentLength(g, i + 1)

\* C18: the body length is the integer value of Content-Length, 0 when the
\* header is absent or not an integer; with length 0 the body reader is never
\* read, and otherwise exactly one read of that length is made, before the
\* method check and before any 405 or file response.
C18_BodyReadOnce ==
    ParsedOk
        => LET cl == GenContentLength(gen, 1)
           IN /\ cl = 0 => (reads = <<>> /\ pc # "read")
              /\ pc \in {"expect", "clen"} => reads = <<>>
              /\ pc = "read" => (readN = cl /\ reads = <<>>)
              /\ Len(reads) <= 1
              /\ reads # <<>> => reads[1][1] = cl
              /\ (cl # 0 /\ (pc \in {"method", "serve"} \/ served
                              \/ Statuses \cap {"405", "200", "404"} # {}))
                    => Len(reads) = 1

\* Host and content-length: 2 on a GET: one read(2), then the file is served
C18_Witness ==
    /\ ParsedOk /\ GenContentLength(gen, 1) = 2
    /\ reads = << <<2, <<"b1", "b2">> >> >>
    /\ sent = <<"200">>

\* C19: serve_file is invoked only for a parsed request whose method is GET once
\* upper-cased; for any other parsed method the 405 is sent and serve_file is
\* not invoked (unless the send of the 100 Continue failed before the check).
C19_ServeOnlyGet ==
    /\ served => (perr.kind = "none" /\ Upper(gen.tokens[1]) = <<"GET">>)
    /\ (ParsedOk /\ Upper(gen.tokens[1]) # <<"GET">>)
          => /\ ~served
             /\ Statuses \cap {"200", "404"} = {}
             /\ pc \in {"exit", "end"}
                   => ("405" \in Statuses \/ (exc = "send" /\ sent = <<"100", "400">>))
             /\ (pc \in {"exit", "end"} /\ exc = "none")
                   => (sent[Len(sent)] = "405" /\ outcome = "returned")

\* the request line "get / HTTP/1.1" was served as a GET
C19_Witness ==
    /\ gen.tokens[1] = <<"get">> /\ method = <<"GET">>
    /\ served /\ sent = <<"200">> /\ pc = "end"

\* C20: on one connection the send of at most one final response -- 400, 405,
\* 200 or 404 -- is started.
C20_AtMostOneFinalResponse ==
    Cardinality({i \in 1..Len(sent) : sent[i] # "100"}) <= 1

====
